---- MODULE Spec2Model ----
(***************************************************************************)
(* Conversation store (ConversationMemory durable object) and the worker   *)
(* routes in front of it.                                                  *)
(*                                                                         *)
(* JSON objects whose shape matters (the job context) are sets of          *)
(* <<path, leaf>> entries, path being the sequence of keys that leads to   *)
(* the string leaf; other JSON objects are records whose domain is the set *)
(* of keys that are present.                                               *)
(***************************************************************************)
EXTENDS Integers, Sequences, FiniteSets, TLC

\* ---------------------------------------------------------------- bounds
MaxClock == 1
MaxMsgs == 3
MaxRun == 3
MaxAttempts == 2
MaxChats == 2
MaxTurns == 6

\* ---------------------------------------------------------------- inputs
Sessions == {"s1", "s2"}
Users == {"u1", "u2"}
Roles == {"user", "assistant", "system"}
Contents == {"hi"}
Undefined == "<undefined>"
\* bodies of /init: the worker sends the session's own id, another caller may not
InitBodies == {[userId |-> "u1", sessionId |-> "s1"],
               [userId |-> "u2", sessionId |-> "s2"]}

SystemPrompt == "You are a helpful AI job application assistant. Help users with resume tailoring, cover letter writing, interview preparation, and job search advice."

\* `!v` of a string-or-undefined value
Falsy(v) == v \in {Undefined, ""}

\* ------------------------------------------------------- JSON job context
EmptyObject == "{}"

ObjKeys(o) == {e[1][1] : e \in o}

\* { ...a, ...b }
Spread(a, b) == {e \in a : e[1][1] \notin ObjKeys(b)} \cup b

\* { k: o }
Nest(k, o) ==
  IF o = {} THEN {<<(<<k>>), EmptyObject>>}
  ELSE {<<(<<k>> \o e[1]), e[2]>> : e \in o}

\* const { k } = o, for a k that is absent or holds an object
Field(o, k) ==
  {<<Tail(e[1]), e[2]>> : e \in {x \in o : x[1][1] = k /\ Len(x[1]) > 1}}

Leaf(k, v) == <<(<<k>>), v>>

Partials ==
  { {},
    {Leaf("jobTitle", "A")},
    {Leaf("company", "B"), Leaf("jobDescription", "D")},
    {Leaf("jobTitle", "C"), Leaf("resumeText", "R")} }

\* ------------------------------------------------------------ limit query
\* the query parameter is a string of decimal digits; <<>> is absent or ""
DefaultLimit == <<5, 0>>
ChatLimit == <<1, 0>>
LimitParams == {<<>>, <<0>>, <<2>>}

RECURSIVE parseInt(_)
parseInt(ds) ==
  IF Len(ds) = 0 THEN 0
  ELSE 10 * parseInt(SubSeq(ds, 1, Len(ds) - 1)) + ds[Len(ds)]

\* q || "50"
OrDefault(q) == IF Len(q) = 0 THEN DefaultLimit ELSE q

\* Array.prototype.slice(start)
slice(arr, start) ==
  LET len == Len(arr)
      k == IF start < 0
           THEN (IF len + start > 0 THEN len + start ELSE 0)
           ELSE (IF start < len THEN start ELSE len)
  IN SubSeq(arr, k + 1, len)

\* ------------------------------------------------------------------ state
\* storage[s]   the storage of the durable object named s: no key, or the
\*              key "conversation"
\* clock        Date.now()
\* resp         the last response a caller received, with its request
\* chat[r]      the progress of POST /api/chat request r
\* initRun[s]   history: the number of /init requests (up to MaxRun) that s
\*              handled in a row starting without stored state, and the state
\*              the first of them returned
\* sinceClear[s] history: the number of requests (up to 2) that s handled
\*              since its last /clear
\* faulty       the storage API of the durable objects is failing
\* runs[w]      the workflow instance with id w as the orchestrator holds it:
\*              none, or its status, params, progress and generation calls
\* pending[q]   the progress of request q sent to the durable object while
\*              other requests to it are in flight
\* acked        history: the messages (counted per request name) and the
\*              context entries of the requests pending has answered with 200
\* answered     history: the number of POST /api/chat requests answered with
\*              200, counted by the chat sequence specification
\* poller       the WorkflowPanel component: which version of it runs, where
\*              pollWorkflowStatus stands, the status requests it has issued
\*              and its isRunning, result and error state
VARIABLES storage, clock, resp, chat, initRun, sinceClear, runs, faulty,
          pending, acked, answered, poller

vars ==
  <<storage, clock, resp, chat, initRun, sinceClear, runs, faulty,
    pending, acked, answered, poller>>

Stored(st) == "conversation" \in DOMAIN st

NoStorage == <<>>

JsonResponse(code, data) == [status |-> code, body |-> data]

Result(st, r) == [storage |-> st, response |-> r]

\* ------------------------------------------------------ ConversationMemory
\* handleInit taking userId and sessionId of the request into an existing state
handleInitAdopt(st, body, now) ==
  IF ~Stored(st)
  THEN LET initialState ==
             [messages |-> <<[role |-> "system", content |-> SystemPrompt,
                              timestamp |-> now]>>,
              metadata |-> [userId |-> body.userId, sessionId |-> body.sessionId,
                            createdAt |-> now, lastActivityAt |-> now]]
       IN Result([conversation |-> initialState],
                 JsonResponse(200, [success |-> TRUE, state |-> initialState]))
  ELSE LET adopted ==
             [st.conversation EXCEPT !.metadata.userId = body.userId,
                                     !.metadata.sessionId = body.sessionId]
       IN Result([conversation |-> adopted],
                 JsonResponse(200, [success |-> TRUE, state |-> adopted]))

\* handleInit stamping the seed of an existing state anew
handleInitRestamp(st, body, now) ==
  IF ~Stored(st)
  THEN LET initialState ==
             [messages |-> <<[role |-> "system", content |-> SystemPrompt,
                              timestamp |-> now]>>,
              metadata |-> [userId |-> body.userId, sessionId |-> body.sessionId,
                            createdAt |-> now, lastActivityAt |-> now]]
       IN Result([conversation |-> initialState],
                 JsonResponse(200, [success |-> TRUE, state |-> initialState]))
  ELSE LET touched ==
             [st.conversation EXCEPT !.messages[1].timestamp = now,
                                     !.metadata.lastActivityAt = now]
       IN Result([conversation |-> touched],
                 JsonResponse(200, [success |-> TRUE, state |-> touched]))

\* handleInit creating a conversation without the system message
handleInitNoSeed(st, body, now) ==
  IF ~Stored(st)
  THEN LET initialState ==
             [messages |-> <<>>,
              metadata |-> [userId |-> body.userId, sessionId |-> body.sessionId,
                            createdAt |-> now, lastActivityAt |-> now]]
       IN Result([conversation |-> initialState],
                 JsonResponse(200, [success |-> TRUE, state |-> initialState]))
  ELSE Result(st, JsonResponse(200, [success |-> TRUE, state |-> st.conversation]))

\* handleInit without the test for an existing state
handleInitAlways(st, body, now) ==
  LET initialState ==
        [messages |-> <<[role |-> "system", content |-> SystemPrompt,
                         timestamp |-> now]>>,
         metadata |-> [userId |-> body.userId, sessionId |-> body.sessionId,
                       createdAt |-> now, lastActivityAt |-> now]]
  IN Result([conversation |-> initialState],
            JsonResponse(200, [success |-> TRUE, state |-> initialState]))

handleInit(st, body, now) ==
  IF ~Stored(st)
  THEN LET initialState ==
             [messages |-> <<[role |-> "system", content |-> SystemPrompt,
                              timestamp |-> now]>>,
              metadata |-> [userId |-> body.userId, sessionId |-> body.sessionId,
                            createdAt |-> now, lastActivityAt |-> now]]
       IN Result([conversation |-> initialState],
                 JsonResponse(200, [success |-> TRUE, state |-> initialState]))
  ELSE Result(st, JsonResponse(200, [success |-> TRUE, state |-> st.conversation]))

\* handleAddMessage keeping a window of the two newest messages
handleAddMessageWindow(st, body, now) ==
  IF ~Stored(st)
  THEN Result(st, JsonResponse(400, [error |-> "Conversation not initialized"]))
  ELSE LET conversation == st.conversation
           newMessage == [role |-> body.role, content |-> body.content,
                          timestamp |-> now]
           all == Append(conversation.messages, newMessage)
           updated == [messages |-> IF Len(all) > 2
                                    THEN SubSeq(all, Len(all) - 1, Len(all))
                                    ELSE all,
                       metadata |-> [conversation.metadata
                                       EXCEPT !.lastActivityAt = now]]
       IN Result([conversation |-> updated],
                 JsonResponse(200, [success |-> TRUE, message |-> newMessage]))

\* handleAddMessage without the update of lastActivityAt
handleAddMessageNoTouch(st, body, now) ==
  IF ~Stored(st)
  THEN Result(st, JsonResponse(400, [error |-> "Conversation not initialized"]))
  ELSE LET conversation == st.conversation
           newMessage == [role |-> body.role, content |-> body.content,
                          timestamp |-> now]
           updated == [messages |-> Append(conversation.messages, newMessage),
                       metadata |-> conversation.metadata]
       IN Result([conversation |-> updated],
                 JsonResponse(200, [success |-> TRUE, message |-> newMessage]))

\* handleAddMessage with unshift in place of push
handleAddMessageUnshift(st, body, now) ==
  IF ~Stored(st)
  THEN Result(st, JsonResponse(400, [error |-> "Conversation not initialized"]))
  ELSE LET conversation == st.conversation
           newMessage == [role |-> body.role, content |-> body.content,
                          timestamp |-> now]
           updated == [messages |-> <<newMessage>> \o conversation.messages,
                       metadata |-> [conversation.metadata
                                       EXCEPT !.lastActivityAt = now]]
       IN Result([conversation |-> updated],
                 JsonResponse(200, [success |-> TRUE, message |-> newMessage]))

\* handleAddMessage keeping a timestamp the body brings
handleAddMessageCallerStamp(st, body, now) ==
  IF ~Stored(st)
  THEN Result(st, JsonResponse(400, [error |-> "Conversation not initialized"]))
  ELSE LET conversation == st.conversation
           stamp == IF "timestamp" \in DOMAIN body THEN body.timestamp ELSE now
           newMessage == [role |-> body.role, content |-> body.content,
                          timestamp |-> stamp]
           updated == [messages |-> Append(conversation.messages, newMessage),
                       metadata |-> [conversation.metadata
                                       EXCEPT !.lastActivityAt = now]]
       IN Result([conversation |-> updated],
                 JsonResponse(200, [success |-> TRUE, message |-> newMessage]))

handleAddMessage(st, body, now) ==
  IF ~Stored(st)
  THEN Result(st, JsonResponse(400, [error |-> "Conversation not initialized"]))
  ELSE LET conversation == st.conversation
           newMessage == [role |-> body.role, content |-> body.content,
                          timestamp |-> now]
           updated == [messages |-> Append(conversation.messages, newMessage),
                       metadata |-> [conversation.metadata
                                       EXCEPT !.lastActivityAt = now]]
       IN Result([conversation |-> updated],
                 JsonResponse(200, [success |-> TRUE, message |-> newMessage]))

\* handleGetHistory answering a missing conversation like the other handlers
handleGetHistoryStrict(st, query) ==
  LET limit == parseInt(OrDefault(query))
  IN IF ~Stored(st)
     THEN Result(st, JsonResponse(400, [error |-> "Conversation not initialized"]))
     ELSE Result(st, JsonResponse(200,
                 [messages |-> slice(st.conversation.messages, 0 - limit),
                  metadata |-> st.conversation.metadata]))

handleGetHistory(st, query) ==
  LET limit == parseInt(OrDefault(query))
  IN IF ~Stored(st)
     THEN Result(st, JsonResponse(200, [messages |-> <<>>]))
     ELSE Result(st, JsonResponse(200,
                 [messages |-> slice(st.conversation.messages, 0 - limit),
                  metadata |-> st.conversation.metadata]))

JobContextOf(metadata) ==
  IF "jobContext" \in DOMAIN metadata THEN metadata.jobContext ELSE {}

\* handleUpdateContext with the two spreads in the other order
handleUpdateContextKeepOld(st, body) ==
  IF ~Stored(st)
  THEN Result(st, JsonResponse(400, [error |-> "Conversation not initialized"]))
  ELSE LET conversation == st.conversation
           jobContext == Field(body, "jobContext")
           merged == Spread(jobContext, JobContextOf(conversation.metadata))
           md == [k \in DOMAIN conversation.metadata \cup {"jobContext"} |->
                    IF k = "jobContext" THEN merged ELSE conversation.metadata[k]]
       IN Result([conversation |-> [messages |-> conversation.messages,
                                    metadata |-> md]],
                 JsonResponse(200, [success |-> TRUE, context |-> merged]))

\* handleUpdateContext counting as activity
handleUpdateContextTouch(st, body) ==
  IF ~Stored(st)
  THEN Result(st, JsonResponse(400, [error |-> "Conversation not initialized"]))
  ELSE LET conversation == st.conversation
           jobContext == Field(body, "jobContext")
           merged == Spread(JobContextOf(conversation.metadata), jobContext)
           md == [k \in DOMAIN conversation.metadata \cup {"jobContext"} |->
                    IF k = "jobContext" THEN merged
                    ELSE IF k = "lastActivityAt"
                         THEN conversation.metadata[k] + 1
                    ELSE conversation.metadata[k]]
       IN Result([conversation |-> [messages |-> conversation.messages,
                                    metadata |-> md]],
                 JsonResponse(200, [success |-> TRUE, context |-> merged]))

handleUpdateContext(st, body) ==
  IF ~Stored(st)
  THEN Result(st, JsonResponse(400, [error |-> "Conversation not initialized"]))
  ELSE LET conversation == st.conversation
           jobContext == Field(body, "jobContext")
           merged == Spread(JobContextOf(conversation.metadata), jobContext)
           md == [k \in DOMAIN conversation.metadata \cup {"jobContext"} |->
                    IF k = "jobContext" THEN merged ELSE conversation.metadata[k]]
       IN Result([conversation |-> [messages |-> conversation.messages,
                                    metadata |-> md]],
                 JsonResponse(200, [success |-> TRUE, context |-> merged]))

\* handleClear dropping the messages after the seed in place of deleteAll
handleClearMessages(st) ==
  IF ~Stored(st) THEN Result(st, JsonResponse(200, [success |-> TRUE]))
  ELSE Result([conversation |->
                 [st.conversation EXCEPT !.messages = <<Head(@)>>]],
              JsonResponse(200, [success |-> TRUE]))

handleClear(st) ==
  Result(NoStorage, JsonResponse(200, [success |-> TRUE]))

\* the request dispatch of the durable object; a faulting storage call is
\* caught and answered with 500, nothing having been written
fetch(st, path, arg, now, fault) ==
  IF fault /\ path \in {"/init", "/message", "/history", "/context", "/clear"}
  THEN Result(st, JsonResponse(500, [error |-> "Error: storage"]))
  ELSE CASE path = "/init" -> handleInit(st, arg, now)
         [] path = "/message" -> handleAddMessage(st, arg, now)
         [] path = "/history" -> handleGetHistory(st, arg)
         [] path = "/context" -> handleUpdateContext(st, arg)
         [] path = "/clear" -> handleClear(st)
         [] OTHER -> Result(st, [status |-> 404, body |-> [text |-> "Not Found"]])

\* ------------------------------------------------------------------- init
NoResp == [layer |-> "none", op |-> "none", sid |-> "none", req |-> <<>>,
           status |-> 0, body |-> <<>>]

\* the POST /api/chat requests that can be in flight
ChatReqs == {"r1"}

\* the POST /api/chat requests of the specification of overlapping requests
ChatSlots == {"r1", "r2"}

\* the requests to one durable object that can be in flight together
ConcReqs == {"q1", "q2"}

IdleReq == [pc |-> "idle", path |-> "", res |-> <<>>]

\* an id the orchestrator has no instance for
NoInstance == [status |-> "none"]

\* JSON null
null == [null |-> TRUE]

\* useState(false), useState(null): the component before any workflow
IdlePoller == [pc |-> "off", version |-> "none", attempts |-> 0, polls |-> 0,
               last |-> Undefined, isRunning |-> FALSE, result |-> null,
               error |-> null]

NoAcks == [msgs |-> [q \in ConcReqs |-> 0], ctx |-> {}]

IdleChat == [pc |-> "idle", message |-> "", sessionId |-> "", userId |-> "",
             history |-> <<>>, assistantMessage |-> "", calls |-> <<>>]

NoRun == [count |-> 0, first |-> <<>>]

\* the instance ids the orchestrator assigns (instance.id)
WorkflowIds == {"w1"}

Init ==
  /\ storage = [s \in Sessions |-> NoStorage]
  /\ clock = 0
  /\ resp = NoResp
  /\ chat = [r \in ChatSlots |-> IdleChat]
  /\ initRun = [s \in Sessions |-> NoRun]
  /\ sinceClear = [s \in Sessions |-> 2]
  /\ runs = [w \in WorkflowIds |-> NoInstance]
  /\ faulty = FALSE
  /\ pending = [q \in ConcReqs |-> IdleReq]
  /\ acked = NoAcks
  /\ answered = 0
  /\ poller = IdlePoller

Room(s) ==
  IF Stored(storage[s]) THEN Len(storage[s].conversation.messages) < MaxMsgs
  ELSE TRUE

\* Date.now() advances between requests
Tick ==
  /\ clock < MaxClock
  /\ clock' = clock + 1
  /\ UNCHANGED <<storage, resp, chat, initRun, sinceClear, runs, faulty,
                 pending, acked, answered, poller>>

\* idFromName naming one object whatever the session
idFromNameShared(name) == "s1"

\* env.CONVERSATIONS.idFromName(sessionId): the object id is derived from the
\* name, one object per name
idFromName(name) == name

\* env.CONVERSATIONS.get(idFromName(sessionId)).fetch(...): what the durable
\* object of session s does with the request
StubFetch(s, path, arg) ==
  fetch(storage[idFromName(s)], path, arg, clock, faulty)

RunAfter(s, path, res) ==
  IF path # "/init" \/ "state" \notin DOMAIN res.response.body THEN NoRun
  ELSE IF ~Stored(storage[s])
       THEN [count |-> 1, first |-> res.response.body.state]
  ELSE IF initRun[s].count = 0 THEN NoRun
  ELSE [initRun[s] EXCEPT !.count = IF @ < MaxRun THEN @ + 1 ELSE @]

\* the durable object of session s has handled the request with result res
Deliver(s, path, res) ==
  /\ storage' = [storage EXCEPT ![idFromName(s)] = res.storage]
  /\ initRun' = [initRun EXCEPT ![s] = RunAfter(s, path, res)]
  /\ sinceClear' = [sinceClear EXCEPT ![s] =
                      IF path = "/clear" THEN 0
                      ELSE IF @ < 2 THEN @ + 1 ELSE @]

\* a request sent straight to the durable object of session s
Call(s, path, arg) ==
  LET res == StubFetch(s, path, arg)
  IN /\ Deliver(s, path, res)
     /\ resp' = [layer |-> "store", op |-> path, sid |-> s, req |-> arg,
                 status |-> res.response.status, body |-> res.response.body]
     /\ UNCHANGED <<clock, chat, runs, faulty,
                    pending, acked, answered, poller>>

initialize(s) ==
  \E body \in InitBodies : Call(s, "/init", body)

appendMessage(s) ==
  /\ Room(s)
  /\ \E role \in Roles, content \in Contents :
       Call(s, "/message", [role |-> role, content |-> content])

getHistory(s) ==
  \E q \in LimitParams : Call(s, "/history", q)

updateContext(s) ==
  \E p \in Partials : Call(s, "/context", Nest("jobContext", p))

clear(s) ==
  Call(s, "/clear", <<>>)

\* the durable object whose requests the specifications explore
Instance == "s1"

Next ==
  \/ Tick
  \/ initialize(Instance)
  \/ appendMessage(Instance)
  \/ getHistory(Instance)
  \/ updateContext(Instance)
  \/ clear(Instance)

Spec == Init /\ [][Next]_vars

\* ------------------------------------------------------------ worker routes
\* c.json(data): the status defaults to 200
HttpResp(op, s, request, code, data) ==
  [layer |-> "http", op |-> op, sid |-> s, req |-> request, status |-> code,
   body |-> data]

GetHistoryRoute(s) ==
  \E q \in LimitParams :
    LET limit == OrDefault(q)
        res == StubFetch(s, "/history", limit)
    IN /\ Deliver(s, "/history", res)
       /\ resp' = HttpResp("GET /api/history", s, q, 200, res.response.body)
       /\ UNCHANGED <<clock, chat, runs, faulty,
                      pending, acked, answered, poller>>

\* bodies of POST /api/context: the documented {jobContext: {...}} and a bare
\* partial context
ContextBodies ==
  { Nest("jobContext", {Leaf("company", "B")}),
    Nest("jobContext", {Leaf("jobTitle", "C")}),
    {Leaf("jobTitle", "A")} }

PostContextRouteOn(s, bodies) ==
  \E body \in bodies :
    LET jobContext == body
        res == StubFetch(s, "/context", Nest("jobContext", jobContext))
    IN /\ Deliver(s, "/context", res)
       /\ resp' = HttpResp("POST /api/context", s, body, 200,
                           res.response.body)
       /\ UNCHANGED <<clock, chat, runs, faulty,
                      pending, acked, answered, poller>>

PostContextRoute(s) == PostContextRouteOn(s, ContextBodies)

DeleteHistoryRoute(s) ==
  /\ Deliver(s, "/clear", StubFetch(s, "/clear", <<>>))
  /\ resp' = HttpResp("DELETE /api/history", s, <<>>, 200,
                      [success |-> TRUE, message |-> "History cleared"])
  /\ UNCHANGED <<clock, chat, runs, faulty,
                 pending, acked, answered, poller>>

\* ---------------------------------------------------------- POST /api/chat
ChatRequest(message, sessionId, userId) ==
  [message |-> message, sessionId |-> sessionId, userId |-> userId]

\* request bodies: complete ones, and ones with a field missing or empty
ChatBodies ==
  {ChatRequest("hi", Instance, u) : u \in Users}
  \cup {ChatRequest(m, Instance, "u1") : m \in {Undefined, ""}}
  \cup {ChatRequest("hi", sid, "u1") : sid \in {Undefined, ""}}
  \cup {ChatRequest("hi", Instance, u) : u \in {Undefined, ""}}

ChatResp(r, code, data, calls) ==
  [layer |-> "http", op |-> "POST /api/chat", sid |-> chat[r].sessionId,
   req |-> ChatRequest(chat[r].message, chat[r].sessionId, chat[r].userId),
   status |-> code, body |-> data, calls |-> calls]

\* the validation without its userId test
MissingFieldsNoUser(body) == Falsy(body.message) \/ Falsy(body.sessionId)

\* !message || !sessionId || !userId
MissingFields(body) ==
  Falsy(body.message) \/ Falsy(body.sessionId) \/ Falsy(body.userId)

\* the request is parsed and validated
ChatStartOn(r, bodies) ==
  /\ chat[r].pc = "idle"
  /\ \E body \in bodies :
       LET message == body.message
           sessionId == body.sessionId
           userId == body.userId
       IN
       IF MissingFields(body)
       THEN /\ resp' = [layer |-> "http", op |-> "POST /api/chat",
                        sid |-> sessionId, req |-> body, status |-> 400,
                        body |-> [error |-> "Missing required fields"],
                        calls |-> <<>>]
            /\ UNCHANGED chat
       ELSE /\ chat' = [chat EXCEPT ![r] =
                          [IdleChat EXCEPT !.pc = "init", !.message = message,
                                           !.sessionId = sessionId,
                                           !.userId = userId]]
            /\ UNCHANGED resp
  /\ UNCHANGED <<storage, clock, initRun, sinceClear, runs, faulty,
                 pending, acked, answered, poller>>

ChatStart(r) == ChatStartOn(r, ChatBodies)

ChatInit(r) ==
  /\ chat[r].pc = "init"
  /\ Deliver(chat[r].sessionId, "/init",
             StubFetch(chat[r].sessionId, "/init",
                       [userId |-> chat[r].userId,
                        sessionId |-> chat[r].sessionId]))
  /\ chat' = [chat EXCEPT ![r].pc = "user", ![r].calls = Append(@, "/init")]
  /\ UNCHANGED <<clock, resp, runs, faulty,
                 pending, acked, answered, poller>>

\* the user message is not saved
ChatUserSkip(r) ==
  /\ chat[r].pc = "user"
  /\ chat' = [chat EXCEPT ![r].pc = "history"]
  /\ UNCHANGED <<storage, clock, resp, initRun, sinceClear, runs, faulty,
                 pending, acked, poller>>

\* the user message is saved
ChatUserStep(r) ==
  /\ chat[r].pc = "user"
  /\ Deliver(chat[r].sessionId, "/message",
             StubFetch(chat[r].sessionId, "/message",
                       [role |-> "user", content |-> chat[r].message]))
  /\ chat' = [chat EXCEPT ![r].pc = "history",
                          ![r].calls = Append(@, "/message")]
  /\ UNCHANGED <<clock, resp, runs, faulty,
                 pending, acked, poller>>

ChatUser(r) ==
  /\ chat[r].pc = "user"
  /\ Room(chat[r].sessionId)
  /\ ChatUserStep(r)
  /\ UNCHANGED answered

ChatHistory(r) ==
  /\ chat[r].pc = "history"
  /\ LET res == StubFetch(chat[r].sessionId, "/history", ChatLimit)
     IN /\ Deliver(chat[r].sessionId, "/history", res)
        /\ chat' = [chat EXCEPT ![r].pc = "ai",
                                ![r].history = res.response.body,
                                ![r].calls = Append(@, "/history")]
  /\ UNCHANGED <<clock, resp, runs, faulty,
                 pending, acked, answered, poller>>

\* what env.AI.run resolves to: a string, or an object with response or text
AiResponses == {[string |-> "re"], [response |-> "re"], [text |-> "re"],
                [response |-> ""]}

\* typeof aiResponse === 'string' ? aiResponse
\*   : (aiResponse.response || aiResponse.text || String(aiResponse))
AssistantMessage(aiResponse) ==
  IF "string" \in DOMAIN aiResponse THEN aiResponse.string
  ELSE IF "response" \in DOMAIN aiResponse /\ ~Falsy(aiResponse.response)
       THEN aiResponse.response
  ELSE IF "text" \in DOMAIN aiResponse /\ ~Falsy(aiResponse.text)
       THEN aiResponse.text
  ELSE "[object Object]"

ChatError == [error |-> "Failed to process chat message"]

\* ChatAI with a fallback reply in place of the rethrown fault
ChatAIFallback(r) ==
  /\ chat[r].pc = "ai"
  /\ "messages" \in DOMAIN chat[r].history
  /\ chat' = [chat EXCEPT ![r].pc = "assistant",
                          ![r].assistantMessage = "Sorry",
                          ![r].calls = Append(@, "AI.run")]
  /\ UNCHANGED <<storage, clock, resp, initRun, sinceClear, runs, faulty,
                 pending, acked, answered, poller>>

\* messages.map(...) and env.AI.run(...)
ChatAI(r) ==
  /\ chat[r].pc = "ai"
  /\ IF "messages" \notin DOMAIN chat[r].history
     THEN /\ resp' = ChatResp(r, 500, ChatError, chat[r].calls)
          /\ chat' = [chat EXCEPT ![r] = IdleChat]
     ELSE \/ /\ resp' = ChatResp(r, 500, ChatError,
                                 Append(chat[r].calls, "AI.run"))
             /\ chat' = [chat EXCEPT ![r] = IdleChat]
          \/ \E aiResponse \in AiResponses :
               /\ chat' = [chat EXCEPT
                             ![r].pc = "assistant",
                             ![r].assistantMessage = AssistantMessage(aiResponse),
                             ![r].calls = Append(@, "AI.run")]
               /\ UNCHANGED resp
  /\ UNCHANGED <<storage, clock, initRun, sinceClear, runs, faulty,
                 pending, acked, answered, poller>>

\* the request is answered and the assistant message is not saved
ChatAssistantUnsaved(r) ==
  /\ chat[r].pc = "assistant"
  /\ resp' = ChatResp(r, 200,
                      [response |-> chat[r].assistantMessage,
                       sessionId |-> chat[r].sessionId, timestamp |-> clock],
                      Append(chat[r].calls, "/message"))
  /\ chat' = [chat EXCEPT ![r] = IdleChat]
  /\ UNCHANGED <<storage, clock, initRun, sinceClear, runs, faulty,
                 pending, acked, poller>>

\* the assistant message is saved and the request answered
ChatAssistantStep(r) ==
  /\ chat[r].pc = "assistant"
  /\ Deliver(chat[r].sessionId, "/message",
             StubFetch(chat[r].sessionId, "/message",
                       [role |-> "assistant",
                        content |-> chat[r].assistantMessage]))
  /\ resp' = ChatResp(r, 200,
                      [response |-> chat[r].assistantMessage,
                       sessionId |-> chat[r].sessionId, timestamp |-> clock],
                      Append(chat[r].calls, "/message"))
  /\ chat' = [chat EXCEPT ![r] = IdleChat]
  /\ UNCHANGED <<clock, runs, faulty,
                 pending, acked, poller>>

ChatAssistant(r) ==
  /\ chat[r].pc = "assistant"
  /\ Room(chat[r].sessionId)
  /\ ChatAssistantStep(r)
  /\ UNCHANGED answered

NextHttp ==
  \/ Tick
  \/ GetHistoryRoute(Instance)
  \/ PostContextRoute(Instance)
  \/ DeleteHistoryRoute(Instance)
  \/ \E r \in ChatReqs : ChatStart(r)
  \/ \E r \in ChatReqs : ChatInit(r)
  \/ \E r \in ChatReqs : ChatUser(r)
  \/ \E r \in ChatReqs : ChatHistory(r)
  \/ \E r \in ChatReqs : ChatAI(r)
  \/ \E r \in ChatReqs : ChatAssistant(r)

SpecHttp == Init /\ [][NextHttp]_vars

\* ---------------------------------------------------------- storage faults
\* the storage API of the durable objects starts or stops throwing; fetch
\* catches what it throws and answers 500
StorageFault ==
  /\ faulty' = ~faulty
  /\ UNCHANGED <<storage, clock, resp, chat, initRun, sinceClear, runs,
                 pending, acked, answered, poller>>

NextFault ==
  \/ StorageFault
  \/ GetHistoryRoute(Instance)
  \/ PostContextRoute(Instance)
  \/ DeleteHistoryRoute(Instance)
  \/ \E r \in ChatReqs : ChatStart(r)
  \/ \E r \in ChatReqs : ChatInit(r)
  \/ \E r \in ChatReqs : ChatUser(r)
  \/ \E r \in ChatReqs : ChatHistory(r)
  \/ \E r \in ChatReqs : ChatAI(r)
  \/ \E r \in ChatReqs : ChatAssistant(r)

SpecFault == Init /\ [][NextFault]_vars

\* ------------------------------------------- bodies with further fields
\* bodies of /message that agree on role and content and bring a timestamp
\* or an id of their own
StampedBodies ==
  {[role |-> "user", content |-> "hi"],
   [role |-> "user", content |-> "hi", timestamp |-> 7],
   [role |-> "user", content |-> "hi", timestamp |-> 7, id |-> "x"]}

appendMessageStamped(s) ==
  /\ Room(s)
  /\ \E body \in StampedBodies : Call(s, "/message", body)

NextStamped ==
  \/ Tick
  \/ initialize(Instance)
  \/ appendMessageStamped(Instance)
  \/ clear(Instance)

SpecStamped == Init /\ [][NextStamped]_vars

\* ------------------------------------------------------------ two sessions
\* a message whose text names the session it is sent to
appendMessageNamed(s) ==
  /\ Room(s)
  /\ Call(s, "/message", [role |-> "user", content |-> s])

\* chat requests of the two sessions, the text naming the session
SessionChatBodies == {ChatRequest(s, s, "u1") : s \in Sessions}

\* a context update naming the session it is sent to
SessionContextBodies(s) == {{Leaf("company", s)}}

NextSessions ==
  \/ \E s \in Sessions : appendMessageNamed(s)
  \/ \E s \in Sessions : GetHistoryRoute(s)
  \/ \E s \in Sessions : PostContextRouteOn(s, SessionContextBodies(s))
  \/ \E s \in Sessions : DeleteHistoryRoute(s)
  \/ \E r \in ChatReqs : ChatStartOn(r, SessionChatBodies)
  \/ \E r \in ChatReqs : ChatInit(r)
  \/ \E r \in ChatReqs : ChatUser(r)
  \/ \E r \in ChatReqs : ChatHistory(r)
  \/ \E r \in ChatReqs : ChatAI(r)
  \/ \E r \in ChatReqs : ChatAssistant(r)

SpecSessions == Init /\ [][NextSessions]_vars

\* ------------------------------------------ chat requests one after another
\* the texts of the successive requests
ChatTexts == <<"m1", "m2", "m3", "m4">>

\* the body of the next request of the sequence
NextChatBodies ==
  {ChatRequest(ChatTexts[answered + 1], Instance, u) : u \in Users}

\* a request that passes validation
ChatAccepted(r) ==
  /\ answered < MaxChats
  /\ answered < Len(ChatTexts)
  /\ ChatStartOn(r, NextChatBodies)
  /\ UNCHANGED answered

\* env.AI.run resolves
ChatGenerated(r) ==
  /\ ChatAI(r)
  /\ chat'[r].pc = "assistant"

\* the request is answered with 200
ChatAnswered(r) ==
  /\ ChatAssistantStep(r)
  /\ answered' = answered + 1

NextChat ==
  \/ Tick
  \/ \E r \in ChatReqs : ChatAccepted(r)
  \/ \E r \in ChatReqs : ChatInit(r)
  \/ \E r \in ChatReqs : ChatUserStep(r) /\ UNCHANGED answered
  \/ \E r \in ChatReqs : ChatHistory(r)
  \/ \E r \in ChatReqs : ChatGenerated(r)
  \/ \E r \in ChatReqs : ChatAnswered(r)

SpecChat == Init /\ [][NextChat]_vars

\* ------------------------------------------------------ a long conversation
\* the next request of a conversation of up to MaxTurns requests
ChatTurn(r) ==
  /\ answered < MaxTurns
  /\ ChatStartOn(r, {ChatRequest("hi", Instance, "u1")})
  /\ UNCHANGED answered

NextLongChat ==
  \/ \E r \in ChatReqs : ChatTurn(r)
  \/ \E r \in ChatReqs : ChatInit(r)
  \/ \E r \in ChatReqs : ChatUserStep(r) /\ UNCHANGED answered
  \/ \E r \in ChatReqs : ChatHistory(r)
  \/ \E r \in ChatReqs : ChatGenerated(r)
  \/ \E r \in ChatReqs : ChatAnswered(r)

SpecLongChat == Init /\ [][NextLongChat]_vars

\* ------------------------------------------------ overlapping chat requests
\* the text request r sends
SlotText == [r \in ChatSlots |-> IF r = "r1" THEN "m1" ELSE "m2"]

InFlight == {r \in ChatSlots : chat[r].pc # "idle"}

\* a request is accepted while another may be on its way; no more requests
\* are made than there are slots
ChatOverlapStart(r) ==
  /\ answered + Cardinality(InFlight) < Cardinality(ChatSlots)
  /\ ChatStartOn(r, {ChatRequest(SlotText[r], Instance, "u1")})
  /\ UNCHANGED answered

NextOverlap ==
  \/ Tick
  \/ \E r \in ChatSlots : ChatOverlapStart(r)
  \/ \E r \in ChatSlots : ChatInit(r)
  \/ \E r \in ChatSlots : ChatUserStep(r) /\ UNCHANGED answered
  \/ \E r \in ChatSlots : ChatHistory(r)
  \/ \E r \in ChatSlots : ChatGenerated(r)
  \/ \E r \in ChatSlots : ChatAnswered(r)

SpecOverlap == Init /\ [][NextOverlap]_vars

\* ------------------------------------------- requests in flight together
\* the context field each request name updates
CtxField == [q \in ConcReqs |-> IF q = "q1" THEN "jobTitle" ELSE "company"]

\* the JSON body of request q: a message or a context update carrying its name
Body(q, path) ==
  IF path = "/message" THEN [role |-> "user", content |-> q]
  ELSE Nest("jobContext", {Leaf(CtxField[q], q)})

\* no await holding back other requests
StorageAwaitNone == {}

\* the awaits of handleAddMessage and handleUpdateContext on the storage API
\* (storage.get, storage.put): while one is outstanding the object delivers no
\* event of another request
StorageAwait == {"get", "put"}

GateOpen(q) ==
  \A p \in ConcReqs \ {q} : pending[p].pc \notin StorageAwait

Quiet == \A q \in ConcReqs : pending[q].pc = "idle"

\* messages.push is reached by no more requests than MaxMsgs has room for
ReqRoom ==
  IF Stored(storage[Instance])
  THEN Len(storage[Instance].conversation.messages)
         + Cardinality({q \in ConcReqs : pending[q].path = "/message"})
       < MaxMsgs
  ELSE TRUE

\* fetch is entered with request q; the handler awaits request.json()
ReqStart(q) ==
  /\ pending[q].pc = "idle"
  /\ GateOpen(q)
  /\ \E path \in {"/message", "/context"} :
       /\ path = "/message" => ReqRoom
       /\ pending' = [pending EXCEPT ![q] = [IdleReq EXCEPT !.pc = "json",
                                                            !.path = path]]
  /\ UNCHANGED <<storage, clock, resp, chat, initRun, sinceClear, runs, faulty,
                 acked, answered, poller>>

\* request.json() has resolved; the handler awaits storage.get
ReqBody(q) ==
  /\ pending[q].pc = "json"
  /\ GateOpen(q)
  /\ pending' = [pending EXCEPT ![q].pc = "get"]
  /\ UNCHANGED <<storage, clock, resp, chat, initRun, sinceClear, runs, faulty,
                 acked, answered, poller>>

StoreResp(s, path, arg, res) ==
  [layer |-> "store", op |-> path, sid |-> s, req |-> arg,
   status |-> res.response.status, body |-> res.response.body]

\* storage.get has resolved; the handler answers 400, or changes the state it
\* has read and awaits storage.put
ReqRead(q) ==
  /\ pending[q].pc = "get"
  /\ LET path == pending[q].path
         res == StubFetch(Instance, path, Body(q, path))
     IN IF res.response.status = 200
        THEN /\ pending' = [pending EXCEPT ![q].pc = "put", ![q].res = res]
             /\ UNCHANGED <<storage, resp, initRun, sinceClear>>
        ELSE /\ Deliver(Instance, path, res)
             /\ resp' = StoreResp(Instance, path, Body(q, path), res)
             /\ pending' = [pending EXCEPT ![q] = IdleReq]
  /\ UNCHANGED <<clock, chat, runs, faulty, acked, answered, poller>>

\* what the requests answered with 200 have sent
Acknowledge(q, path) ==
  IF path = "/message" THEN [acked EXCEPT !.msgs[q] = @ + 1]
  ELSE [acked EXCEPT !.ctx = @ \cup {Leaf(CtxField[q], q)}]

\* storage.put has resolved and the answer is returned
ReqWrite(q) ==
  /\ pending[q].pc = "put"
  /\ LET path == pending[q].path
         res == pending[q].res
     IN /\ Deliver(Instance, path, res)
        /\ resp' = StoreResp(Instance, path, Body(q, path), res)
        /\ acked' = Acknowledge(q, path)
  /\ pending' = [pending EXCEPT ![q] = IdleReq]
  /\ UNCHANGED <<clock, chat, runs, faulty, answered, poller>>

\* the session is created while no request is in flight
ReqInit ==
  /\ Quiet
  /\ ~Stored(storage[Instance])
  /\ initialize(Instance)

NextConcurrent ==
  \/ Tick
  \/ ReqInit
  \/ \E q \in ConcReqs : ReqStart(q)
  \/ \E q \in ConcReqs : ReqBody(q)
  \/ \E q \in ConcReqs : ReqRead(q)
  \/ \E q \in ConcReqs : ReqWrite(q)

SpecConcurrent == Init /\ [][NextConcurrent]_vars

\* ======================================================= generation pipeline
\* WorkflowRequest: the JSON body of POST /api/workflow
WorkflowRequest(jobDescription, resumeText, jobTitle, company, userId) ==
  [jobDescription |-> jobDescription, resumeText |-> resumeText,
   jobTitle |-> jobTitle, company |-> company, userId |-> userId]

\* bodies of POST /api/workflow: complete, without company, and with one of
\* the three checked fields absent or empty
WorkflowBodies ==
  { WorkflowRequest("D", "R", "T", "B", "u1"),
    WorkflowRequest("D", "R", "T", Undefined, "u1"),
    WorkflowRequest(Undefined, "R", "T", "B", "u1"),
    WorkflowRequest("D", Undefined, "T", "B", "u1"),
    WorkflowRequest("D", "R", Undefined, "B", "u1"),
    WorkflowRequest("", "R", "T", "B", "u1"),
    WorkflowRequest("D", "", "T", "B", "u1"),
    WorkflowRequest("D", "R", "", "B", "u1") }

MissingWorkflowFieldsNoTitle(workflowData) ==
  Falsy(workflowData.jobDescription) \/ Falsy(workflowData.resumeText)

\* !workflowData.jobDescription || !workflowData.resumeText ||
\* !workflowData.jobTitle
MissingWorkflowFields(workflowData) ==
  \/ Falsy(workflowData.jobDescription)
  \/ Falsy(workflowData.resumeText)
  \/ Falsy(workflowData.jobTitle)

\* the steps of run(), in the order of the source text
Steps == <<"analyze-job", "tailor-resume", "generate-cover-letter",
           "interview-tips">>

\* the instance JOB_WORKFLOW.create({ params }) registers: the orchestrator
\* has not started run() yet
\*   results   the values the finished step.do calls resolved to
\*   inflight  the env.AI.run calls that have not settled
\*   attempts  the attempts the orchestrator has made of the current step
\*   calls     every env.AI.run call of the instance, in order
create(params) ==
  [status |-> "queued", params |-> params, results |-> <<>>, inflight |-> {},
   attempts |-> 0, calls |-> <<>>]

\* the ids the orchestrator has not assigned yet
FreeIds == {w \in WorkflowIds : runs[w] = NoInstance}

\* Error messages are sequences of words; message.includes(word)
includes(message, word) == \E i \in 1..Len(message) : message[i] = word

\* JOB_WORKFLOW.get(id): the instance, or the orchestrator's error for an id
\* it has no instance for
get(workflowId) ==
  IF workflowId \in WorkflowIds /\ runs[workflowId] # NoInstance
  THEN [instance |-> runs[workflowId]]
  ELSE [error |-> <<"instance", "not_found">>]

\* instance.status(): the orchestrator's report; output is there once run()
\* has returned, error once it has thrown
status(instance) ==
  IF instance.status = "complete"
    THEN [status |-> "complete", output |-> instance.output]
  ELSE IF instance.status = "errored"
    THEN [status |-> "errored", error |-> [name |-> "Error",
                                           message |-> "AI.run failed"]]
  ELSE [status |-> instance.status]

\* POST /api/workflow
PostWorkflowRoute ==
  \E workflowData \in WorkflowBodies :
    IF MissingWorkflowFields(workflowData)
    THEN /\ resp' = HttpResp("POST /api/workflow", "none", workflowData, 400,
                             [error |-> "Missing required workflow fields"])
         /\ UNCHANGED <<storage, clock, chat, initRun, sinceClear,
                        runs, faulty,
                        pending, acked, answered, poller>>
    ELSE \E id \in FreeIds :
           /\ runs' = [runs EXCEPT ![id] = create(workflowData)]
           /\ resp' = HttpResp("POST /api/workflow", id, workflowData, 200,
                               [workflowId |-> id,
                                message |-> "Workflow started successfully",
                                status |-> "running"])
           /\ UNCHANGED <<storage, clock, chat, initRun, sinceClear, faulty,
                          pending, acked, answered, poller>>

\* an orchestrator that starts an instance only once its status is asked for
StartRunPolled(w) ==
  /\ runs[w].status = "queued"
  /\ resp.op = "GET /api/workflow"
  /\ resp.sid = w
  /\ runs' = [runs EXCEPT ![w].status = "running"]
  /\ UNCHANGED <<storage, clock, resp, chat, initRun, sinceClear, faulty,
                 pending, acked, answered, poller>>

\* the orchestrator starts run(event, step) of a queued instance
StartRun(w) ==
  /\ runs[w].status = "queued"
  /\ runs' = [runs EXCEPT ![w].status = "running"]
  /\ UNCHANGED <<storage, clock, resp, chat, initRun, sinceClear, faulty,
                 pending, acked, answered, poller>>

\* the prompt templates with a cover letter written from the request alone
PromptLetterAlone(k, params, results) ==
  CASE k = 1 -> [jobTitle |-> params.jobTitle, company |-> params.company,
                 jobDescription |-> params.jobDescription]
    [] k = 2 -> [resumeText |-> params.resumeText, analysis |-> results[1],
                 jobTitle |-> params.jobTitle, company |-> params.company]
    [] k = 3 -> [jobTitle |-> params.jobTitle, company |-> params.company,
                 resumeText |-> params.resumeText]
    [] k = 4 -> [jobTitle |-> params.jobTitle, company |-> params.company,
                 jobDescription |-> params.jobDescription]

\* what the prompt template of step k embeds
Prompt(k, params, results) ==
  CASE k = 1 -> [jobTitle |-> params.jobTitle, company |-> params.company,
                 jobDescription |-> params.jobDescription]
    [] k = 2 -> [resumeText |-> params.resumeText, analysis |-> results[1],
                 jobTitle |-> params.jobTitle, company |-> params.company]
    [] k = 3 -> [jobTitle |-> params.jobTitle, company |-> params.company,
                 analysis |-> results[1], resumeText |-> params.resumeText]
    [] k = 4 -> [jobTitle |-> params.jobTitle, company |-> params.company,
                 jobDescription |-> params.jobDescription]

\* max_tokens of step k
MaxTokens == <<1024, 2048, 2048, 1536>>

AwaitedNever(run) == TRUE

\* await: run() goes on only when the pending call has settled
Awaited(run) == run.inflight = {}

\* step.do(Steps[k], callback): the orchestrator runs the callback, which
\* builds the prompt and calls env.AI.run
StepCall(w) ==
  LET run == runs[w]
      k == Len(run.results) + 1
  IN /\ run.status = "running"
     /\ Awaited(run)
     /\ k <= Len(Steps)
     /\ run.attempts < MaxAttempts
     /\ runs' = [runs EXCEPT
                   ![w].inflight = @ \cup
                      {[call |-> Len(run.calls) + 1, step |-> Steps[k],
                        prompt |-> Prompt(k, run.params, run.results),
                        max_tokens |-> MaxTokens[k]]},
                   ![w].attempts = @ + 1,
                   ![w].calls = Append(@, [step |-> Steps[k],
                                           done |-> Len(run.results)])]
     /\ UNCHANGED <<storage, clock, resp, chat, initRun, sinceClear, faulty,
                    pending, acked, answered, poller>>

\* return response.response
ResponseOf(response) ==
  IF "response" \in DOMAIN response THEN response.response ELSE Undefined

\* return { analysis, tailoredResume, coverLetter, interviewTips }
JobApplicationResult(results) ==
  [analysis |-> results[1], tailoredResume |-> results[2],
   coverLetter |-> results[3], interviewTips |-> results[4]]

\* the instance after its pending call c resolved to response: the step's
\* value is kept and, after the last step, run() returns
Resolved(run, c, response) ==
  LET results == Append(run.results, ResponseOf(response))
      next == [run EXCEPT !.results = results, !.inflight = @ \ {c},
                          !.attempts = 0]
  IN IF Len(results) < Len(Steps) THEN next
     ELSE [status |-> "complete", params |-> run.params, results |-> results,
           inflight |-> next.inflight, attempts |-> 0, calls |-> run.calls,
           output |-> JobApplicationResult(results)]

\* env.AI.run resolves
StepResolve(w) ==
  /\ runs[w].status = "running"
  /\ \E c \in runs[w].inflight, response \in AiResponses :
       runs' = [runs EXCEPT ![w] = Resolved(runs[w], c, response)]
  /\ UNCHANGED <<storage, clock, resp, chat, initRun, sinceClear, faulty,
                 pending, acked, answered, poller>>

\* env.AI.run rejects and the callback throws: step.do was given no
\* WorkflowStepConfig, so the orchestrator's own retry policy decides whether
\* it runs the callback again or step.do throws and run() with it
StepThrow(w) ==
  /\ runs[w].status = "running"
  /\ \E c \in runs[w].inflight :
       \/ /\ runs[w].attempts < MaxAttempts
          /\ runs' = [runs EXCEPT ![w].inflight = @ \ {c}]
       \/ runs' = [runs EXCEPT ![w].inflight = @ \ {c},
                               ![w].status = "errored"]
  /\ UNCHANGED <<storage, clock, resp, chat, initRun, sinceClear, faulty,
                 pending, acked, answered, poller>>

StatusResponseResultOnly(workflowId, statusInfo) ==
  LET answer(st, output) ==
        HttpResp("GET /api/workflow", workflowId, <<>>, 200,
                 [workflowId |-> workflowId, status |-> st,
                  output |-> output])
  IN IF "result" \in DOMAIN statusInfo /\ statusInfo.result # null
       THEN answer("complete", statusInfo.result)
     ELSE answer(statusInfo.status, null)

StatusResponseRunning(workflowId, statusInfo) ==
  LET answer(st, output) ==
        HttpResp("GET /api/workflow", workflowId, <<>>, 200,
                 [workflowId |-> workflowId, status |-> st,
                  output |-> output])
  IN IF "output" \in DOMAIN statusInfo /\ statusInfo.output # null
       THEN answer("complete", statusInfo.output)
     ELSE IF statusInfo.status = "queued" THEN answer("running", null)
     ELSE answer(statusInfo.status, null)

StatusResponseExposeError(workflowId, statusInfo) ==
  LET answer(st, output) ==
        HttpResp("GET /api/workflow", workflowId, <<>>, 200,
                 [workflowId |-> workflowId, status |-> st,
                  output |-> output])
  IN IF "output" \in DOMAIN statusInfo /\ statusInfo.output # null
       THEN answer("complete", statusInfo.output)
     ELSE IF "error" \in DOMAIN statusInfo
       THEN answer(statusInfo.status, statusInfo.error)
     ELSE answer(statusInfo.status, null)

\* lines 167-200 of GET /api/workflow/:workflowId; instance.output is not a
\* method of the instance, so the call in the inner try throws and output
\* stays null
StatusResponse(workflowId, statusInfo) ==
  LET finalStatus == IF Falsy(statusInfo.status) THEN "running"
                     ELSE statusInfo.status
      answer(st, output) ==
        HttpResp("GET /api/workflow", workflowId, <<>>, 200,
                 [workflowId |-> workflowId, status |-> st,
                  output |-> output])
  IN IF "output" \in DOMAIN statusInfo /\ statusInfo.output # null
       THEN answer("complete", statusInfo.output)
     ELSE IF "result" \in DOMAIN statusInfo /\ statusInfo.result # null
       THEN answer("complete", statusInfo.result)
     ELSE answer(finalStatus, null)

StatusErrorAlways500(workflowId, message) ==
  HttpResp("GET /api/workflow", workflowId, <<>>, 500,
           [error |-> "Failed to get workflow status", message |-> message])

\* the catch block of GET /api/workflow/:workflowId
StatusError(workflowId, message) ==
  IF includes(message, "not_found")
  THEN HttpResp("GET /api/workflow", workflowId, <<>>, 200,
                [workflowId |-> workflowId, status |-> "not_found",
                 output |-> null])
  ELSE HttpResp("GET /api/workflow", workflowId, <<>>, 500,
                [error |-> "Failed to get workflow status",
                 message |-> message])

\* the ids GET /api/workflow/:workflowId is asked about
PolledIds == WorkflowIds \cup {"w0"}

\* GET /api/workflow/:workflowId
GetWorkflowRoute ==
  \E workflowId \in PolledIds :
    LET got == get(workflowId)
    IN /\ resp' = IF "error" \in DOMAIN got
                  THEN StatusError(workflowId, got.error)
                  ELSE StatusResponse(workflowId, status(got.instance))
       /\ UNCHANGED <<storage, clock, chat, initRun, sinceClear, runs, faulty,
                      pending, acked, answered, poller>>

NextWorkflow ==
  \/ PostWorkflowRoute
  \/ GetWorkflowRoute
  \/ \E w \in WorkflowIds : StartRun(w)
  \/ \E w \in WorkflowIds : StepCall(w)
  \/ \E w \in WorkflowIds : StepResolve(w)
  \/ \E w \in WorkflowIds : StepThrow(w)

SpecWorkflow == Init /\ [][NextWorkflow]_vars

\* the orchestrator keeps running an instance it holds, and every env.AI.run
\* call settles: it resolves or it rejects; requests to the worker are under
\* no obligation to arrive
RunProgress(w) ==
  /\ WF_vars(StartRun(w))
  /\ WF_vars(StepCall(w))
  /\ WF_vars(StepResolve(w) \/ StepThrow(w))

SpecWorkflowLive == SpecWorkflow /\ \A w \in WorkflowIds : RunProgress(w)

\* ------------------------------------------------------- the status poller
\* const maxAttempts = 120 of the current pollWorkflowStatus
MaxAttemptsCurrent == 120

\* const maxAttempts = 60 of the earlier pollWorkflowStatus
MaxAttemptsEarlier == 60

Versions == {"earlier", "current"}

maxAttempts(version) ==
  IF version = "current" THEN MaxAttemptsCurrent ELSE MaxAttemptsEarlier

\* setError(...)
ErrorText(text) == [text |-> text]

\* a property of a JSON object, undefined when the object has none of the name
Property(data, name) == IF name \in DOMAIN data THEN data[name] ELSE Undefined

\* data.output as a condition: null and undefined are falsy, an object is not
HasOutput(data) == "output" \in DOMAIN data /\ data.output # null

\* startWorkflow: POST /api/workflow answered with a workflowId;
\* setIsRunning(true), setError(null), setResult(null), pollWorkflowStatus(id)
startWorkflow ==
  /\ poller.pc \in {"off", "stopped"}
  /\ \E version \in Versions :
       poller' = [IdlePoller EXCEPT !.pc = "poll", !.version = version,
                                    !.isRunning = TRUE]
  /\ UNCHANGED <<storage, clock, resp, chat, initRun, sinceClear, runs, faulty,
                 pending, acked, answered>>

\* poll(): fetch(`${API_BASE_URL}/workflow/${id}`) is issued, at once or when
\* the timer of setTimeout(poll, 5000) fires
poll ==
  /\ poller.pc = "poll"
  /\ poller' = [poller EXCEPT !.pc = "fetch", !.polls = @ + 1]
  /\ UNCHANGED <<storage, clock, resp, chat, initRun, sinceClear, runs, faulty,
                 pending, acked, answered>>

\* what instance.status() of the orchestrator can report
StatusInfos ==
  {[status |-> s] : s \in {"queued", "running", "terminated", "unknown",
                           "complete"}}
  \cup {[status |-> "errored",
         error |-> [name |-> "Error", message |-> "AI.run failed"]],
        [status |-> "complete",
         output |-> [analysis |-> "re", tailoredResume |-> "re",
                     coverLetter |-> "re", interviewTips |-> "re"]]}

\* what fetch resolves to: the answers of GET /api/workflow/:workflowId
PollAnswers ==
  {StatusResponse("w1", statusInfo) : statusInfo \in StatusInfos}
  \cup {StatusError("w1", <<"instance", "not_found">>),
        StatusError("w1", <<"internal", "error">>)}

\* setError and setIsRunning(false), or setResult and setIsRunning(false)
Failed(p, text) ==
  [p EXCEPT !.pc = "stopped", !.error = ErrorText(text), !.isRunning = FALSE]

Succeeded(p, output) ==
  [p EXCEPT !.pc = "stopped", !.result = output, !.isRunning = FALSE]

\* the last branches without the attempt limit
AgainOrTimeoutEndless(p, text) ==
  [p EXCEPT !.pc = "poll", !.attempts = @ + 1]

\* if (attempts < maxAttempts) { attempts++; setTimeout(poll, 5000) }
\* else { setError(...); setIsRunning(false) }
AgainOrTimeout(p, text) ==
  IF p.attempts < maxAttempts(p.version)
  THEN [p EXCEPT !.pc = "poll", !.attempts = @ + 1]
  ELSE Failed(p, text)

\* the body of poll() of the earlier version after fetch resolved
HandleEarlier(p, response) ==
  LET data == response.body
  IN IF Property(data, "status") = "complete" /\ HasOutput(data)
       THEN Succeeded(p, data.output)
     ELSE IF Property(data, "status") = "error"
       THEN Failed(p, "Workflow failed. Please try again.")
     ELSE AgainOrTimeout(p, "Workflow timed out. Please try again.")

\* the body of poll() of the current version after fetch resolved
HandleCurrent(p, response) ==
  LET data == response.body
  IN IF response.status # 200
       THEN Failed(p, "Failed to check workflow status")
     ELSE IF Property(data, "status") \in {"complete", "Complete"}
       THEN IF HasOutput(data) THEN Succeeded(p, data.output)
            ELSE AgainOrTimeout(p, "Workflow completed but no output received")
     ELSE IF Property(data, "status") \in {"error", "errored", "terminated"}
       THEN Failed(p, "Workflow failed: Unknown error. Please try again.")
     ELSE AgainOrTimeout(p, "Workflow timed out")

Handle(p, response) ==
  IF p.version = "current" THEN HandleCurrent(p, response)
  ELSE HandleEarlier(p, response)

\* fetch resolves and the rest of poll() runs
pollResolved ==
  /\ poller.pc = "fetch"
  /\ \E response \in PollAnswers :
       poller' = Handle([poller EXCEPT !.last = Property(response.body,
                                                        "status")],
                        response)
  /\ UNCHANGED <<storage, clock, resp, chat, initRun, sinceClear, runs, faulty,
                 pending, acked, answered>>

\* fetch rejects: the catch block of poll()
pollRejected ==
  /\ poller.pc = "fetch"
  /\ poller' = Failed([poller EXCEPT !.last = Undefined],
                      "Failed to check workflow status.")
  /\ UNCHANGED <<storage, clock, resp, chat, initRun, sinceClear, runs, faulty,
                 pending, acked, answered>>

NextPoller ==
  \/ startWorkflow
  \/ poll
  \/ pollResolved
  \/ pollRejected

SpecPoller == Init /\ [][NextPoller]_vars

\* ================================================================== claims
Conversation(s) == storage[s].conversation

\* the last min(n, count) elements of a sequence, in order
LastN(msgs, n) ==
  LET m == IF n < Len(msgs) THEN n ELSE Len(msgs)
  IN [i \in 1..m |-> msgs[Len(msgs) - m + i]]

\* C1: for every initialized session and every limit N >= 0, getHistory(N)
\* returns exactly the last min(N, count) messages in insertion order; with
\* N = 0 it returns no messages.
C1_GetHistoryLastN ==
  (resp.layer = "store" /\ resp.op = "/history" /\ Stored(storage[resp.sid]))
    => resp.body.messages =
         LastN(Conversation(resp.sid).messages, parseInt(OrDefault(resp.req)))

\* C2: POST /api/context/:sessionId with body {jobContext: P} on an
\* initialized session merges the fields of P into metadata.jobContext and
\* returns a context that has P's fields at its top level.
C2_ContextRouteMergesP ==
  [][(resp'.op = "POST /api/context" /\ Stored(storage[Instance])
        /\ ObjKeys(resp'.req) = {"jobContext"}
        /\ PostContextRoute(Instance)) =>
       /\ "context" \in DOMAIN resp'.body
       /\ resp'.body.context =
            storage'[Instance].conversation.metadata.jobContext
       /\ \A e \in Field(resp'.req, "jobContext") : e \in resp'.body.context]_vars

\* C3: POST /api/context/:sessionId for a session without stored state is
\* answered with HTTP status 400 (and creates no state).
C3_ContextRouteUninitialized400 ==
  (resp.op = "POST /api/context" /\ ~Stored(storage[resp.sid]))
    => resp.status = 400

IsSeed(m) == m.role = "system" /\ m.content = SystemPrompt

\* C4: after any number k >= 1 of initialize calls in a row on a session that
\* had no stored state, the conversation is the state the first call created,
\* it holds exactly one message, the seeded system message, and the call
\* returned that same state.
C4_InitializeIdempotent ==
  \A s \in Sessions :
    initRun[s].count >= 1 =>
      /\ Stored(storage[s])
      /\ Conversation(s) = initRun[s].first
      /\ Len(Conversation(s).messages) = 1
      /\ IsSeed(Conversation(s).messages[1])
      /\ (resp.layer = "store" /\ resp.sid = s) =>
           (resp.op = "/init" /\ resp.status = 200
              /\ resp.body.state = initRun[s].first)

\* a third initialize in a row, carrying another userId than the first, at a
\* later time than the first
C4_Witness ==
  /\ initRun[Instance].count >= 3
  /\ resp.op = "/init"
  /\ resp.req.userId # Conversation(Instance).metadata.userId
  /\ clock > Conversation(Instance).metadata.createdAt

ContextFields == {"jobTitle", "company", "jobDescription", "resumeText"}

Has(o, f) == \E e \in o : e[1] = <<f>>

Value(o, f) == IF Has(o, f) THEN (CHOOSE e \in o : e[1] = <<f>>)[2] ELSE Undefined

\* C5: updateContext on an initialized session merges field-wise: every field
\* of the job context holds the update's value if the update has the field and
\* the previous value otherwise; the returned context is the stored one.
C5_UpdateContextFieldwise ==
  [][(resp'.op = "/context" /\ Stored(storage[Instance])
        /\ updateContext(Instance)) =>
       LET old == JobContextOf(Conversation(Instance).metadata)
           upd == Field(resp'.req, "jobContext")
           new == storage'[Instance].conversation.metadata.jobContext
       IN /\ resp'.status = 200
          /\ resp'.body.context = new
          /\ ObjKeys(new) \subseteq ContextFields
          /\ \A f \in ContextFields :
               /\ Has(new, f) <=> (Has(upd, f) \/ Has(old, f))
               /\ Value(new, f) = IF Has(upd, f) THEN Value(upd, f)
                                  ELSE Value(old, f)]_vars

\* the update {jobTitle: "C", resumeText: "R"} of the context
\* {jobTitle: "A", company: "B", jobDescription: "D"}
C5_Witness ==
  /\ resp.layer = "store" /\ resp.op = "/context" /\ resp.status = 200
  /\ resp.req = Nest("jobContext", {Leaf("jobTitle", "C"), Leaf("resumeText", "R")})
  /\ resp.body.context = {Leaf("jobTitle", "C"), Leaf("company", "B"),
                          Leaf("jobDescription", "D"), Leaf("resumeText", "R")}
  /\ Conversation(Instance).metadata.jobContext = resp.body.context

\* C6: getHistory on a session with no stored state returns an empty message
\* list with a success status, never an error, and stores nothing.
C6_GetHistoryUninitialized ==
  [][(resp'.op = "/history" /\ ~Stored(storage[Instance])
        /\ getHistory(Instance)) =>
       /\ resp'.status = 200
       /\ DOMAIN resp'.body = {"messages"}
       /\ resp'.body.messages = <<>>
       /\ storage'[Instance] = NoStorage]_vars

\* a getHistory answered right after a clear
C6_Witness ==
  /\ resp.layer = "store" /\ resp.op = "/history" /\ resp.status = 200
  /\ sinceClear[Instance] = 1
  /\ resp.body.messages = <<>>
  /\ ~Stored(storage[Instance])

\* the state a first initialize creates at time t
Fresh(body, t) ==
  [messages |-> <<[role |-> "system", content |-> SystemPrompt, timestamp |-> t]>>,
   metadata |-> [userId |-> body.userId, sessionId |-> body.sessionId,
                 createdAt |-> t, lastActivityAt |-> t]]

\* C7: clear succeeds from any state and leaves nothing stored; a getHistory
\* right after it returns an empty list, and an initialize right after it
\* stores exactly one system message with createdAt taken at that initialize
\* and no job context.
C7_ClearRemovesEverything ==
  [][/\ (resp'.op = "/clear" /\ clear(Instance)) =>
          (resp'.status = 200 /\ storage'[Instance] = NoStorage)
     /\ (sinceClear[Instance] = 0 /\ resp'.op = "/history"
           /\ getHistory(Instance)) =>
          (resp'.status = 200 /\ resp'.body.messages = <<>>)
     /\ (sinceClear[Instance] = 0 /\ resp'.op = "/init"
           /\ initialize(Instance)) =>
          /\ storage'[Instance] = [conversation |-> Fresh(resp'.req, clock)]
          /\ resp'.body.state = Fresh(resp'.req, clock)]_vars

\* an initialize right after a clear, at a time later than 0
C7_Witness ==
  /\ resp.layer = "store" /\ resp.op = "/init"
  /\ sinceClear[Instance] = 1
  /\ Stored(storage[Instance])
  /\ Conversation(Instance).metadata.createdAt > 0
  /\ Len(Conversation(Instance).messages) = 1
  /\ "jobContext" \notin DOMAIN Conversation(Instance).metadata

\* C8: appendMessage on a session with no stored state is answered 400,
\* appends nothing and leaves the session without state; on an initialized
\* session it appends exactly one message and returns that message.
C8_AppendMessage ==
  [][(resp'.op = "/message" /\ appendMessage(Instance)) =>
       IF ~Stored(storage[Instance])
       THEN /\ resp'.status = 400
            /\ storage'[Instance] = NoStorage
       ELSE /\ resp'.status = 200
            /\ resp'.body.message.role = resp'.req.role
            /\ resp'.body.message.content = resp'.req.content
            /\ storage'[Instance].conversation.messages =
                 Append(Conversation(Instance).messages, resp'.body.message)]_vars

\* a message appended after two others and returned
C8_Witness ==
  /\ resp.layer = "store" /\ resp.op = "/message" /\ resp.status = 200
  /\ Len(Conversation(Instance).messages) = 3
  /\ Conversation(Instance).messages[3] = resp.body.message
  /\ Conversation(Instance).messages[2] # resp.body.message

\* C9: the store's message operation never appends a message with role
\* system: the only system message of a conversation is the seed.
C9_NoSystemAppend ==
  \A s \in Sessions :
    Stored(storage[s]) =>
      \A i \in 2..Len(Conversation(s).messages) :
        Conversation(s).messages[i].role # "system"

AnyMissing(body) ==
  \E f \in {"message", "sessionId", "userId"} : body[f] \in {Undefined, ""}

\* C10: POST /api/chat with message, sessionId or userId missing or empty
\* returns 400 without any store or inference call and without changing any
\* stored state; only a request that has all three is carried on.
C10_ChatValidation ==
  [][\A r \in ChatReqs :
       (chat[r].pc = "idle" /\ ChatStart(r)) =>
         IF chat'[r].pc = "idle"
         THEN /\ AnyMissing(resp'.req)
              /\ resp'.status = 400
              /\ resp'.calls = <<>>
              /\ storage' = storage
         ELSE /\ ~AnyMissing(chat'[r])
              /\ resp' = resp]_vars

\* the request without userId, rejected while the session has no state
C10_Witness ==
  /\ resp.op = "POST /api/chat" /\ resp.status = 400
  /\ resp.req.userId = Undefined
  /\ resp.req.message = "hi" /\ resp.req.sessionId = Instance
  /\ ~Stored(storage[Instance])

\* a field of the body is missing or empty
Absent(v) == v = Undefined \/ v = ""

RequiredMissing(body) ==
  Absent(body.jobDescription) \/ Absent(body.resumeText)
    \/ Absent(body.jobTitle)

\* C11: POST /api/workflow with jobDescription, resumeText or jobTitle
\* missing or empty answers HTTP 400 and creates no pipeline run; a run comes
\* into being only in a POST /api/workflow step whose body has all three.
C11_WorkflowValidation ==
  [][ /\ (resp'.op = "POST /api/workflow" /\ PostWorkflowRoute
            /\ RequiredMissing(resp'.req))
         => (resp'.status = 400 /\ runs' = runs)
      /\ \A w \in WorkflowIds :
           (runs[w] = NoInstance /\ runs'[w] # NoInstance)
           => /\ resp'.op = "POST /api/workflow"
              /\ resp'.status = 200
              /\ ~RequiredMissing(resp'.req)
              /\ runs'[w].params = resp'.req ]_vars

C11_Witness ==
  /\ resp.op = "POST /api/workflow"
  /\ resp.status = 400
  /\ resp.req.jobTitle = ""
  /\ \A w \in WorkflowIds : runs[w] = NoInstance

ResultFields == {"analysis", "tailoredResume", "coverLetter", "interviewTips"}

\* the five fields of the request are there
AllFieldsPresent(params) ==
  \A f \in DOMAIN params : ~Absent(params[f])

\* the run made one generation call per step and none of them faulted
AllCallsSucceeded(run) == Len(run.calls) = Len(Steps)

\* C12: a run created with all required fields whose four generation calls
\* all succeed is complete with a result whose four fields are all non-empty
\* strings.
C12_CompleteNonEmpty ==
  \A w \in WorkflowIds :
    (runs[w].status = "complete" /\ AllCallsSucceeded(runs[w])
       /\ AllFieldsPresent(runs[w].params))
    => \A f \in ResultFields : ~Absent(runs[w].output[f])

\* a generation call of the run has faulted: it was made and is neither
\* pending nor the source of a result
Faulted(run) ==
  run # NoInstance
  /\ Len(run.calls) > Len(run.results) + Cardinality(run.inflight)

\* C13: a run one of whose generation calls faulted, at whatever stage and
\* after whatever successes, does not become complete, and the status
\* endpoint answers output null for it.
C13_FaultNoOutput ==
  \A w \in WorkflowIds :
    Faulted(runs[w])
    => /\ runs[w].status # "complete"
       /\ (resp.op = "GET /api/workflow" /\ resp.sid = w
             /\ resp.status = 200)
          => resp.body.output = null

\* C15: a failed stage is never retried and failure is terminal: once a
\* generation call of a run has faulted, the run makes no further generation
\* call, and an errored run stays errored.
C15_NoRetryTerminal ==
  [][ \A w \in WorkflowIds :
        /\ Faulted(runs[w]) => runs'[w].calls = runs[w].calls
        /\ runs[w].status = "errored" => runs'[w].status = "errored" ]_vars

\* the position of a step in the source text
StepIndex(step) == CHOOSE k \in 1..Len(Steps) : Steps[k] = step

\* C14: stages execute in the fixed order; the call of stage k+1 is made only
\* when the results of stages 1..k are available; at most one generation
\* call of a run is in flight.
C14_StagesInOrder ==
  \A w \in WorkflowIds :
    runs[w] # NoInstance
    => LET calls == runs[w].calls
       IN /\ Cardinality(runs[w].inflight) <= 1
          /\ \A i \in 1..Len(calls) :
               calls[i].done = StepIndex(calls[i].step) - 1
          /\ \A i, j \in 1..Len(calls) :
               i < j => StepIndex(calls[i].step) <= StepIndex(calls[j].step)
          /\ \A c \in runs[w].inflight :
               /\ c.step = Steps[Len(runs[w].results) + 1]
               /\ c.call = Len(calls)

C14_Witness ==
  \E w \in WorkflowIds :
    /\ runs[w] # NoInstance
    /\ Len(runs[w].results) = 3
    /\ \E c \in runs[w].inflight : c.step = "interview-tips"

ReportedStatuses ==
  {"queued", "running", "complete", "errored", "terminated", "not_found"}

BeforeFirstStage(run) ==
  /\ run # NoInstance
  /\ run.status \in {"queued", "running"}
  /\ Len(run.results) = 0

\* a POST /api/workflow step with a valid body answers 200 with the id of
\* the run it created and status running
ValidPostAnswersRunning ==
  (resp'.op = "POST /api/workflow" /\ PostWorkflowRoute
     /\ ~RequiredMissing(resp'.req))
  => /\ resp'.status = 200
     /\ resp'.body.status = "running"
     /\ resp'.body.workflowId \in WorkflowIds
     /\ runs[resp'.body.workflowId] = NoInstance
     /\ runs'[resp'.body.workflowId] # NoInstance

\* a GET /api/workflow/:workflowId step about a run whose first stage has not
\* completed
EarlyGet ==
  /\ resp'.op = "GET /api/workflow"
  /\ GetWorkflowRoute
  /\ resp'.sid \in WorkflowIds
  /\ BeforeFirstStage(runs[resp'.sid])

\* C17 as claimed: POST /api/workflow with valid input returns a workflowId
\* with status running, and every GET /api/workflow/<id> issued before the
\* first stage has completed returns status running with output null.
C17_EarlyGetRunning ==
  [][ /\ ValidPostAnswersRunning
      /\ EarlyGet => (resp'.body.status = "running"
                        /\ resp'.body.output = null) ]_vars

\* C17 as amended: POST /api/workflow with valid input returns a workflowId
\* with status running, and every GET /api/workflow/<id> issued before the
\* first stage has completed returns the orchestrator's status of the run,
\* queued until run() has started and running from then on, with output null.
C17_EarlyGetRelaysStatus ==
  [][ /\ ValidPostAnswersRunning
      /\ EarlyGet => (/\ resp'.body.status = runs[resp'.sid].status
                      /\ resp'.body.status \in {"queued", "running"}
                      /\ resp'.body.output = null) ]_vars

C17_Witness ==
  /\ resp.op = "GET /api/workflow"
  /\ resp.sid \in WorkflowIds
  /\ resp.body.status = "queued"
  /\ resp.body.output = null
  /\ runs[resp.sid].status = "queued"

\* C18: once complete, a run is immutable: no step changes it or makes a
\* generation call for it, and every later GET /api/workflow/<id> returns
\* complete with the four-field output the run completed with.
C18_CompleteImmutable ==
  [][ \A w \in WorkflowIds :
        runs[w].status = "complete"
        => /\ runs'[w] = runs[w]
           /\ (resp'.op = "GET /api/workflow" /\ GetWorkflowRoute
                 /\ resp'.sid = w)
              => /\ resp'.status = 200
                 /\ resp'.body.status = "complete"
                 /\ resp'.body.output = JobApplicationResult(runs[w].results)
                 /\ DOMAIN resp'.body.output = ResultFields ]_vars

C18_Witness ==
  /\ resp.op = "GET /api/workflow"
  /\ resp.sid \in WorkflowIds
  /\ runs[resp.sid].status = "complete"
  /\ resp.body.status = "complete"
  /\ resp.body.output = runs[resp.sid].output

\* the orchestrator has no instance with this id
NoRecord(workflowId) ==
  workflowId \notin WorkflowIds \/ runs[workflowId] = NoInstance

\* C19: GET /api/workflow/:workflowId for an id the orchestrator has no
\* record of answers with a successful HTTP status, status not_found and
\* output null.
C19_UnknownIdNotFound ==
  [][ (resp'.op = "GET /api/workflow" /\ GetWorkflowRoute
         /\ NoRecord(resp'.sid))
      => /\ resp'.status = 200
         /\ resp'.body = [workflowId |-> resp'.sid, status |-> "not_found",
                          output |-> null] ]_vars

C19_Witness ==
  /\ resp.op = "GET /api/workflow"
  /\ resp.sid = "w0"
  /\ resp.status = 200
  /\ resp.body.status = "not_found"
  /\ \E w \in WorkflowIds : runs[w] # NoInstance

\* C20: whenever the store call made while serving GET /api/history,
\* POST /api/context, DELETE /api/history or POST /api/chat faults, the HTTP
\* response has status 500 (for POST /api/chat: the store call that saves
\* the assistant's message, after which the route answers).
C20_StoreFault500 ==
  [][ faulty
      => /\ (resp'.op = "GET /api/history" /\ GetHistoryRoute(Instance))
            => resp'.status = 500
         /\ (resp'.op = "POST /api/context" /\ PostContextRoute(Instance))
            => resp'.status = 500
         /\ (resp'.op = "DELETE /api/history" /\ DeleteHistoryRoute(Instance))
            => resp'.status = 500
         /\ \A r \in ChatReqs :
              (resp'.op = "POST /api/chat" /\ chat[r].pc = "assistant"
                 /\ ChatAssistant(r))
              => resp'.status = 500 ]_vars

\* the chat request r is at its generation call and the call faults
AiFaults(r) ==
  /\ chat[r].pc = "ai"
  /\ "messages" \in DOMAIN chat[r].history
  /\ chat'[r].pc = "idle"

\* C21: if the generation call made by POST /api/chat faults, the request is
\* answered with HTTP 500 and ends there: no store call follows it, so no
\* assistant message is appended for the request.
C21_ChatInferenceFailure ==
  [][ \A r \in ChatReqs :
        /\ (ChatAI(r) /\ AiFaults(r))
           => /\ resp'.op = "POST /api/chat"
              /\ resp'.status = 500
              /\ resp'.calls = Append(chat[r].calls, "AI.run")
              /\ storage' = storage
        /\ (chat[r].pc = "ai" /\ chat'[r].pc = "assistant")
           => (UNCHANGED <<resp, storage,
                           pending, acked, answered, poller>>
                 /\ chat'[r].calls = Append(chat[r].calls, "AI.run")
                 /\ chat'[r].assistantMessage
                      \in {AssistantMessage(a) : a \in AiResponses})
        /\ \A s \in Sessions :
             (Stored(storage[s]) /\ Stored(storage'[s])
                /\ Len(storage'[s].conversation.messages)
                     > Len(Conversation(s).messages)
                /\ storage'[s].conversation.messages[
                     Len(storage'[s].conversation.messages)].role
                     = "assistant")
             => chat[r].pc = "assistant" ]_vars

C21_Witness ==
  /\ resp.op = "POST /api/chat"
  /\ resp.status = 500
  /\ Len(resp.calls) = 4
  /\ resp.calls[4] = "AI.run"
  /\ Stored(storage[Instance])
  /\ LET msgs == Conversation(Instance).messages
     IN msgs[Len(msgs)].role = "user"

\* C23: from the initialize that creates a conversation to the next clear,
\* metadata.userId, metadata.sessionId and metadata.createdAt keep their
\* values, whatever operation runs: a later initialize with another userId
\* or sessionId leaves them as first set.
C23_IdentityImmutable ==
  [][ \A s \in Sessions :
        (Stored(storage[s]) /\ Stored(storage'[s]))
        => LET old == Conversation(s).metadata
               new == storage'[s].conversation.metadata
           IN /\ new.userId = old.userId
              /\ new.sessionId = old.sessionId
              /\ new.createdAt = old.createdAt ]_vars

\* a later initialize for another user and session, at a later time
C23_Witness ==
  /\ resp.layer = "store" /\ resp.op = "/init"
  /\ resp.req.userId = "u2" /\ resp.req.sessionId = "s2"
  /\ Stored(storage[Instance])
  /\ Conversation(Instance).metadata.userId = "u1"
  /\ Conversation(Instance).metadata.sessionId = "s1"
  /\ Conversation(Instance).metadata.createdAt < clock

\* C24: whenever a session has stored state, its message list is non-empty
\* and its first message is the seeded system message.
C24_SeedFirst ==
  \A s \in Sessions :
    Stored(storage[s])
    => /\ Len(Conversation(s).messages) >= 1
       /\ IsSeed(Conversation(s).messages[1])

\* a full message list that a later initialize has found in place
C24_Witness ==
  /\ Stored(storage[Instance])
  /\ Len(Conversation(Instance).messages) = MaxMsgs
  /\ resp.layer = "store" /\ resp.op = "/init"

\* a is a prefix of b
IsPrefix(a, b) == Len(a) <= Len(b) /\ SubSeq(b, 1, Len(a)) = a

\* C25: the message log is append-only between clears: an operation other
\* than clear leaves the conversation in place with the old message sequence
\* as a prefix of the new one, and the sequence grows only in a successful
\* appendMessage, by exactly one.
C25_AppendOnly ==
  [][ \A s \in Sessions :
        (Stored(storage[s]) /\ ~(resp'.op = "/clear" /\ clear(s)))
        => /\ Stored(storage'[s])
           /\ LET old == Conversation(s).messages
                  new == storage'[s].conversation.messages
              IN /\ IsPrefix(old, new)
                 /\ Len(new) # Len(old)
                    => /\ Len(new) = Len(old) + 1
                       /\ resp'.op = "/message"
                       /\ resp'.status = 200
                       /\ appendMessage(s) ]_vars

\* an append to a log of two messages
C25_Witness ==
  /\ resp.layer = "store" /\ resp.op = "/message" /\ resp.status = 200
  /\ Len(Conversation(Instance).messages) = 3
  /\ Conversation(Instance).messages[2].role = "user"
  /\ Conversation(Instance).messages[3].role = "assistant"

Timestamps(s) ==
  [i \in 1..Len(Conversation(s).messages) |->
     Conversation(s).messages[i].timestamp]

\* C26: with the clock non-decreasing and the operations on a session
\* serialized, the timestamps of a conversation's messages are non-decreasing
\* along the sequence.
C26_TimestampsOrdered ==
  \A s \in Sessions :
    Stored(storage[s])
    => \A i, j \in 1..Len(Conversation(s).messages) :
         i < j => Timestamps(s)[i] <= Timestamps(s)[j]

\* messages stamped before and after the clock advanced
C26_Witness ==
  /\ Stored(storage[Instance])
  /\ Len(Conversation(Instance).messages) = 3
  /\ Timestamps(Instance)[1] = Timestamps(Instance)[2]
  /\ Timestamps(Instance)[2] < Timestamps(Instance)[3]

\* C27: in every state of an initialized session createdAt <= lastActivityAt
\* and lastActivityAt is at least the timestamp of every stored message; a
\* successful appendMessage leaves lastActivityAt not smaller than the
\* timestamp of the message it appended.
C27_LastActivity ==
  \A s \in Sessions :
    Stored(storage[s])
    => LET md == Conversation(s).metadata
       IN /\ md.createdAt <= md.lastActivityAt
          /\ \A i \in 1..Len(Conversation(s).messages) :
               Timestamps(s)[i] <= md.lastActivityAt
          /\ (resp.layer = "store" /\ resp.op = "/message"
                /\ resp.sid = s /\ resp.status = 200)
             => resp.body.message.timestamp <= md.lastActivityAt

\* an append after the clock advanced
C27_Witness ==
  /\ resp.layer = "store" /\ resp.op = "/message" /\ resp.status = 200
  /\ Stored(storage[Instance])
  /\ Conversation(Instance).metadata.createdAt
       < Conversation(Instance).metadata.lastActivityAt
  /\ resp.body.message.timestamp
       = Conversation(Instance).metadata.lastActivityAt

\* the pending generation call c of the run embeds the analysis that stage 1
\* of the run produced
EmbedsAnalysis(run, c) ==
  "analysis" \in DOMAIN c.prompt /\ c.prompt.analysis = run.results[1]

\* C29 as claimed: the prompts of stages 2, 3 and 4 of a run each embed the
\* analysis text produced by stage 1 of the same run.
C29_LaterStagesEmbedAnalysis ==
  \A w \in WorkflowIds :
    runs[w] # NoInstance
    => \A c \in runs[w].inflight :
         c.step \in {"tailor-resume", "generate-cover-letter",
                     "interview-tips"}
         => EmbedsAnalysis(runs[w], c)

\* C29 as amended: the prompts of stages 2 and 3 of a run each embed the
\* analysis text produced by stage 1 of the same run; the prompt of stage 4
\* is built from jobTitle, company and jobDescription of the request alone,
\* as that of stage 1 is.
C29_ResumeAndLetterEmbedAnalysis ==
  \A w \in WorkflowIds :
    runs[w] # NoInstance
    => \A c \in runs[w].inflight :
         /\ c.step \in {"tailor-resume", "generate-cover-letter"}
            => EmbedsAnalysis(runs[w], c)
         /\ c.step \in {"analyze-job", "interview-tips"}
            => c.prompt = [jobTitle |-> runs[w].params.jobTitle,
                           company |-> runs[w].params.company,
                           jobDescription |-> runs[w].params.jobDescription]

\* the cover letter is asked for with the analysis of the run in its prompt
C29_Witness ==
  \E w \in WorkflowIds :
    /\ runs[w] # NoInstance
    /\ \E c \in runs[w].inflight :
         /\ c.step = "generate-cover-letter"
         /\ c.prompt.analysis = "re"
         /\ runs[w].results[1] = "re"

\* the session a step is addressed to: the one of the chat request that moves,
\* or the one the answer of a single-call request names
Addressed(b) ==
  \/ \E r \in ChatReqs :
       /\ chat'[r] # chat[r]
       /\ b = (IF chat[r].pc = "idle" THEN chat'[r].sessionId
               ELSE chat[r].sessionId)
  \/ /\ chat' = chat
     /\ resp'.sid = b

\* the session whose name a message text carries, if any
NamedFor(m) == IF m.content \in Sessions THEN m.content ELSE "none"

\* C22: a request addressed to one session (chat, stored append, history,
\* context, clear) leaves the stored messages and metadata of every other
\* session as they were, and a history answer for a session holds no message
\* that was sent to another session
C22_SessionIsolation ==
  [][ /\ \A b \in Sessions : storage'[b] # storage[b] => Addressed(b)
      /\ (resp'.op = "GET /api/history" /\ "messages" \in DOMAIN resp'.body)
           => \A i \in 1..Len(resp'.body.messages) :
                NamedFor(resp'.body.messages[i]) \in {"none", resp'.sid} ]_vars

\* both sessions hold a message of their own and the history of one of them
\* has been read
C22_Witness ==
  /\ \A s \in Sessions :
       /\ Stored(storage[s])
       /\ \E i \in 1..Len(Conversation(s).messages) :
            Conversation(s).messages[i].content = s
  /\ resp.op = "GET /api/history"
  /\ resp.sid = "s2"
  /\ \E i \in 1..Len(resp.body.messages) : resp.body.messages[i].content = "s2"
  /\ \A s \in Sessions :
       Leaf("company", s) \in JobContextOf(Conversation(s).metadata)

\* the number of stored messages of the instance whose text is c
Copies(c) ==
  IF Stored(storage[Instance])
  THEN Cardinality({i \in 1..Len(Conversation(Instance).messages) :
                      Conversation(Instance).messages[i].content = c})
  ELSE 0

StoredContext ==
  IF Stored(storage[Instance])
  THEN JobContextOf(Conversation(Instance).metadata)
  ELSE {}

\* C28: of the appendMessage and updateContext requests in flight together on
\* one session at most one is between its read and its write of the stored
\* state, and once all of them are answered the stored state holds every
\* acknowledged message exactly once and every acknowledged context update
C28_NoLostUpdate ==
  /\ Cardinality({q \in ConcReqs : pending[q].pc \in {"get", "put"}}) <= 1
  /\ Quiet =>
       /\ \A q \in ConcReqs : Copies(q) = acked.msgs[q]
       /\ acked.ctx \subseteq StoredContext

\* two requests are in flight together, one held back while the other is
\* between its read and its write, after a message and a context update have
\* been acknowledged
C28_Witness ==
  /\ pending["q1"].pc = "put"
  /\ pending["q1"].path = "/message"
  /\ pending["q2"].pc = "json"
  /\ pending["q2"].path = "/context"
  /\ acked.msgs["q2"] = 1
  /\ acked.ctx = {Leaf("jobTitle", "q1")}

\* C30: when chat requests on a session that starts without state are handled
\* one after another and each is answered with 200, the answer to the n-th of
\* them leaves 1 + 2n stored messages: the seed, then in request order each
\* request's user message followed at once by the reply that request returned
C30_ChatSequence ==
  [][ \A r \in ChatReqs :
        (chat[r].pc = "assistant" /\ chat'[r].pc = "idle") =>
          LET s == chat[r].sessionId
              ms == storage'[s].conversation.messages
              n == answered'
          IN /\ resp'.status = 200
             /\ Len(ms) = 1 + 2 * n
             /\ IsSeed(ms[1])
             /\ ms = Append(Conversation(s).messages, ms[Len(ms)])
             /\ \A k \in 1..n :
                  /\ ms[2 * k].role = "user"
                  /\ ms[2 * k].content = ChatTexts[k]
                  /\ ms[2 * k + 1].role = "assistant"
             /\ ms[2 * n].content = chat[r].message
             /\ ms[2 * n + 1].content = resp'.body.response ]_vars

\* the second of two requests on a session has been answered with 200
C30_Witness ==
  /\ answered = 2
  /\ \A r \in ChatReqs : chat[r].pc = "idle"
  /\ resp.op = "POST /api/chat"
  /\ resp.status = 200
  /\ Len(Conversation(Instance).messages) = 5

\* C31: the timestamp of a stored message is the store's clock at the append
\* and never a value the caller sent: appends whose bodies differ only in a
\* timestamp or another field besides role and content store the same message
C31_StoreStampsMessage ==
  [][(resp'.op = "/message" /\ resp'.status = 200
        /\ appendMessageStamped(Instance)) =>
       LET ms == storage'[Instance].conversation.messages
       IN /\ ms[Len(ms)] = [role |-> resp'.req.role,
                            content |-> resp'.req.content,
                            timestamp |-> clock]
          /\ \A other \in StampedBodies :
               handleAddMessage(storage[Instance], other, clock).storage
                 = storage'[Instance]]_vars

\* a message sent with a timestamp of its own has been stored
C31_Witness ==
  /\ resp.op = "/message"
  /\ resp.status = 200
  /\ "timestamp" \in DOMAIN resp.req
  /\ resp.req.timestamp # clock
  /\ Len(Conversation(Instance).messages) = 2

\* C32: every created pipeline run reaches complete or errored when each of
\* its generation calls settles, whether or not GET /api/workflow is ever
\* requested for it, and a GET /api/workflow request changes no run
C32_RunsTerminate ==
  /\ \A w \in WorkflowIds :
       (runs[w].status \in {"queued", "running"})
         ~> (runs[w].status \in {"complete", "errored"})
  /\ [][resp'.op = "GET /api/workflow" /\ GetWorkflowRoute => runs' = runs]_vars

\* a run has completed and no status request has been made since it was
\* created
C32_Witness ==
  \E w \in WorkflowIds :
    /\ runs[w].status = "complete"
    /\ resp.op = "POST /api/workflow"
    /\ resp.status = 200

\* C33: the message list POST /api/chat hands to a generation call holds the
\* seeded system message of the session, however long the history is
C33_GenerationSeesSeed ==
  \A r \in ChatReqs :
    chat[r].pc = "assistant" =>
      \E i \in 1..Len(chat[r].history.messages) :
        IsSeed(chat[r].history.messages[i])

\* C34: POST /api/chat answers 200 only when the store holds the request's
\* user message and, after it, the assistant reply the answer carries,
\* whatever DELETE /api/history requests arrive while it is being served
C34_ChatAnswerPersisted ==
  [][ \A r \in ChatReqs :
        (chat[r].pc = "assistant" /\ resp'.op = "POST /api/chat"
           /\ ChatAssistant(r) /\ resp'.status = 200) =>
          /\ Stored(storage'[chat[r].sessionId])
          /\ LET ms == storage'[chat[r].sessionId].conversation.messages
             IN \E i, j \in 1..Len(ms) :
                  /\ i < j
                  /\ ms[i].role = "user"
                  /\ ms[i].content = chat[r].message
                  /\ ms[j].role = "assistant"
                  /\ ms[j].content = resp'.body.response ]_vars

\* the number of messages of ms with the given role
WithRole(ms, role) == Cardinality({i \in 1..Len(ms) : ms[i].role = role})

\* C35: of two POST /api/chat requests served together on one session and
\* both answered 200, each stores its reply after its own user message, and
\* together they add exactly four messages to the history: two user messages
\* and two assistant messages
C35_OverlappingChats ==
  [][ \A r \in ChatSlots :
        (chat[r].pc = "assistant" /\ chat'[r].pc = "idle") =>
          LET s == chat[r].sessionId
              before == Conversation(s).messages
              ms == storage'[s].conversation.messages
          IN /\ resp'.status = 200
             /\ Len(ms) = Len(before) + 1
             /\ SubSeq(ms, 1, Len(before)) = before
             /\ ms[Len(ms)].role = "assistant"
             /\ ms[Len(ms)].content = resp'.body.response
             /\ \E i \in 1..Len(before) :
                  /\ before[i].role = "user"
                  /\ before[i].content = chat[r].message
             /\ answered' = Cardinality(ChatSlots) =>
                  /\ Len(ms) = 1 + 4
                  /\ WithRole(ms, "user") = 2
                  /\ WithRole(ms, "assistant") = 2 ]_vars

\* both requests have been answered and both user messages were stored
\* before either reply
C35_Witness ==
  /\ answered = 2
  /\ InFlight = {}
  /\ Len(Conversation(Instance).messages) = 5
  /\ Conversation(Instance).messages[2].content = "m1"
  /\ Conversation(Instance).messages[3].content = "m2"

\* C36: for a started workflow either version of the poller issues at most
\* maxAttempts + 1 status requests, whatever the answers are, and when it has
\* stopped isRunning is false and a result or an error is set; after request
\* maxAttempts + 1 has been answered it has stopped
C36_PollerBounded ==
  poller.pc # "off" =>
    /\ poller.polls <= maxAttempts(poller.version) + 1
    /\ poller.pc # "stopped" => poller.isRunning
    /\ poller.pc = "stopped" =>
         /\ ~poller.isRunning
         /\ poller.result # null \/ poller.error # null
    /\ (poller.polls = maxAttempts(poller.version) + 1 /\ poller.pc # "fetch")
         => poller.pc = "stopped"

\* the current poller has given up after request maxAttempts + 1
C36_Witness ==
  /\ poller.version = "current"
  /\ poller.pc = "stopped"
  /\ poller.polls = MaxAttemptsCurrent + 1
  /\ poller.last = "running"
  /\ poller.error # null

\* C37: in both versions of the poller, a poll answered with the status
\* errored or terminated is the last one: the poller stops and reports a
\* failure
C37_FailureStopsPoller ==
  poller.last \in {"errored", "terminated"} =>
    /\ poller.pc = "stopped"
    /\ poller.error # null

\* the metadata without its job context
OtherMetadata(md) == [k \in DOMAIN md \ {"jobContext"} |-> md[k]]

\* C38: getHistory, initialize on a session that has state, and
\* appendMessage or updateContext answered 400 leave the stored state of the
\* session as it was; an updateContext answered 200 changes nothing but
\* metadata.jobContext: messages, createdAt and lastActivityAt stay
C38_FrameConditions ==
  [][ /\ (resp'.op = "/history" /\ getHistory(Instance))
           => storage' = storage
      /\ (resp'.op = "/init" /\ Stored(storage[Instance])
            /\ initialize(Instance))
           => storage' = storage
      /\ (resp'.op = "/message" /\ resp'.status = 400
            /\ appendMessage(Instance))
           => storage' = storage
      /\ (resp'.op = "/context" /\ updateContext(Instance)) =>
           IF resp'.status = 400 THEN storage' = storage
           ELSE /\ storage'[Instance].conversation.messages
                     = Conversation(Instance).messages
                /\ OtherMetadata(storage'[Instance].conversation.metadata)
                     = OtherMetadata(Conversation(Instance).metadata) ]_vars

\* a context update answered 200 on a session that holds messages and was
\* last active after its creation
C38_Witness ==
  /\ resp.layer = "store"
  /\ resp.op = "/context"
  /\ resp.status = 200
  /\ Len(Conversation(Instance).messages) = 2
  /\ JobContextOf(Conversation(Instance).metadata) # {}
  /\ Conversation(Instance).metadata.lastActivityAt
       > Conversation(Instance).metadata.createdAt

====
